---- MODULE Spec2Model ----
(***************************************************************************)
(* Model of one run of the PlaylistDownloader command line tool:           *)
(* main() -> run_download() -> YouTubeDownloadService.download(), with the *)
(* extraction library (yt-dlp) as a nondeterministic environment that      *)
(* answers the metadata query and delivers progress events to the hook.    *)
(***************************************************************************)
EXTENDS Integers, Sequences, FiniteSets, TLC

(* ------------------------------------------------------------------ *)
(* Bounds of the model                                                  *)
(* ------------------------------------------------------------------ *)
\* longest entry list the metadata query returns
MaxEntries == 5
\* largest number of progress events the library delivers in one download
MaxEvents == 4

(* ------------------------------------------------------------------ *)
(* downloader/config.py                                                 *)
(* ------------------------------------------------------------------ *)
\* templates as sequences of path components (the text between "/")
OUTPUT_TEMPLATE == <<"%(playlist_title)s", "%(title)s.%(ext)s">>
SINGLE_VIDEO_TEMPLATE == <<"%(title)s.%(ext)s">>
OUTPUT_TEMPLATE_WAV == <<"%(playlist_title)s", "%(title)s.wav">>
SINGLE_VIDEO_TEMPLATE_WAV == <<"%(title)s.wav">>
YOUTUBE_DOMAINS == {"youtube.com", "youtu.be", "www.youtube.com"}

(* ------------------------------------------------------------------ *)
(* URLs given on the command line or typed at the prompt                *)
(* ------------------------------------------------------------------ *)
\* A URL text is described by its parts: empty (""), blank (only white
\* space), the scheme and host in lower case with flags telling whether
\* they were written in upper case, a "www." prefix, and whether at least
\* one character follows "host/".
MkUrl(empty, blank, scheme, host, upper, www, path) ==
    [empty |-> empty, blank |-> blank, scheme |-> scheme, host |-> host,
     upper |-> upper, www |-> www, path |-> path]

Urls ==
    { MkUrl(TRUE,  TRUE,  "",      "",            FALSE, FALSE, FALSE),
      MkUrl(FALSE, TRUE,  "",      "",            FALSE, FALSE, FALSE),
      MkUrl(FALSE, FALSE, "https", "youtube.com", FALSE, TRUE,  TRUE),
      MkUrl(FALSE, FALSE, "http",  "youtu.be",    FALSE, FALSE, TRUE),
      MkUrl(FALSE, FALSE, "https", "youtube.com", FALSE, FALSE, FALSE),
      MkUrl(FALSE, FALSE, "https", "youtube.com", TRUE,  FALSE, TRUE),
      MkUrl(FALSE, FALSE, "ftp",   "youtube.com", FALSE, FALSE, TRUE),
      MkUrl(FALSE, FALSE, "https", "example.com", FALSE, FALSE, TRUE) }

\* YOUTUBE_URL_PATTERN.match(url): case-insensitive
\* ^https?://(www\.)?(youtube\.com|youtu\.be)/.+
YOUTUBE_URL_PATTERN(u) ==
    /\ u.scheme \in {"http", "https"}
    /\ u.host \in {"youtube.com", "youtu.be"}
    /\ u.path

\* the netloc of the parsed URL, as the set of domains of YOUTUBE_DOMAINS
\* it contains as a substring (the test is case-sensitive)
NetlocDomains(u) ==
    IF u.upper THEN {}
    ELSE { d \in YOUTUBE_DOMAINS :
             \/ d = u.host
             \/ (u.www /\ u.host = "youtube.com" /\ d = "www.youtube.com") }

is_valid_youtube_url(u) ==
    IF u.empty THEN FALSE
    ELSE IF u.blank THEN FALSE
    ELSE IF ~YOUTUBE_URL_PATTERN(u) THEN FALSE
    ELSE u.scheme \in {"http", "https"} /\ NetlocDomains(u) # {}

(* ------------------------------------------------------------------ *)
(* Metadata results of the extraction library                           *)
(* ------------------------------------------------------------------ *)
\* entries of a list are "None" (an unavailable item) or "item"
RECURSIVE SeqsUpTo(_, _)
SeqsUpTo(S, n) ==
    IF n = 0 THEN {<<>>}
    ELSE LET shorter == SeqsUpTo(S, n - 1)
         IN shorter \cup { Append(s, x) : s \in { t \in shorter : Len(t) = n - 1 }, x \in S }

MkInfo(type, entries, list) == [type |-> type, entries |-> entries, list |-> list]

\* Python None and the empty dict {}
NoneInfo == MkInfo("None", "absent", <<>>)
EmptyDict == MkInfo("empty_dict", "absent", <<>>)

\* a single video has no "entries" key (or a null one); a playlist has a
\* list, possibly empty, possibly with None for unavailable items
Infos ==
    { MkInfo("video", e, <<>>) : e \in {"absent", "null"} }
    \cup { MkInfo("playlist", "null", <<>>) }
    \cup { MkInfo("playlist", "list", l) : l \in SeqsUpTo({"None", "item"}, MaxEntries) }

\* what ydl.extract_info(url, download=False) does: return a value or raise
FetchOutcomes ==
    { [raise |-> "none", value |-> i] : i \in Infos \cup {NoneInfo, EmptyDict} }
    \cup { [raise |-> r, value |-> NoneInfo] : r \in {"DownloadError", "Exception"} }

\* number of items of the target the library can download
NItems(i) ==
    IF i.type = "video" THEN 1
    ELSE Len(SelectSeq(i.list, LAMBDA e : e # "None"))

(* ------------------------------------------------------------------ *)
(* YouTubeDownloadService helpers                                       *)
(* ------------------------------------------------------------------ *)
\* variant: the FFmpeg check is skipped in every mode
NeedsFfmpeg_Never(video) == FALSE

\* download(): "if not self._download_video: self._check_ffmpeg()"
NeedsFfmpeg(video) == ~video

\* variant: only None is taken as a failed fetch ("if info is None")
NotInfo_NoneOnly(i) == i.type = "None"

\* download(): "if not info"
NotInfo(i) == i.type \in {"None", "empty_dict"}

\* get_playlist_info(): the value returned for an outcome of extract_info
InfoReturned(o) == IF o.raise = "none" THEN o.value ELSE NoneInfo

\* download(): entries = info.get("entries") or []
EntriesOrEmpty(i) == IF i.entries = "list" THEN i.list ELSE <<>>

\* variant: the count of an absent, null or empty list is 0, not 1
DeriveTotal_NoDefault(i) ==
    Len(SelectSeq(EntriesOrEmpty(i), LAMBDA e : e # "None"))

\* variant: null entries are not filtered out
DeriveTotal_RawLen(i) ==
    LET entries == EntriesOrEmpty(i)
    IN IF entries = <<>> THEN 1 ELSE Len(entries)

\* download(): the derived item count
DeriveTotal(i) ==
    LET entries == EntriesOrEmpty(i)
    IN IF entries = <<>> THEN 1
       ELSE Len(SelectSeq(entries, LAMBDA e : e # "None"))

\* download(): is_playlist = total > 1
IsPlaylist(t) == t > 1

\* _build_opts(): the output template, under the output directory
build_opts_outtmpl(video, playlist) ==
    LET tmpl == IF video
                THEN (IF playlist THEN OUTPUT_TEMPLATE ELSE SINGLE_VIDEO_TEMPLATE)
                ELSE (IF playlist THEN OUTPUT_TEMPLATE_WAV ELSE SINGLE_VIDEO_TEMPLATE_WAV)
    IN <<"output_dir">> \o tmpl

\* _build_opts(): the format selector
build_opts_format(video) == IF video THEN "bestvideo+bestaudio/best" ELSE "bestaudio/best"

\* variant: an "error" event is counted as a success too
HookSuccess_CountsError(status, sc) ==
    IF status \in {"finished", "error"} THEN sc + 1 ELSE sc

\* progress_hook(): the success counter after an event
HookSuccess(status, sc) == IF status = "finished" THEN sc + 1 ELSE sc

\* variant: the index of a "downloading" event is the counter itself
HookCurrent_NoPlusOne(status, sc, cur) ==
    IF status \in {"downloading", "finished"} THEN sc ELSE cur

\* progress_hook(): the current index after an event (sc is the counter
\* after the update above)
HookCurrent(status, sc, cur) ==
    IF status = "downloading" THEN sc + 1
    ELSE IF status = "finished" THEN sc
    ELSE cur

\* _progress_hook(): status = d.get("status", "downloading")
CallbackStatus(status) == IF status = "absent" THEN "downloading" ELSE status

\* download(): the returned pair
DownloadResult(t, sc) == <<sc, t - sc>>

\* run_download(): return 0 if failure == 0 else 1
ExitOf(res) == IF res[2] = 0 THEN 0 ELSE 1

\* statuses of a progress event ("absent": the dict has no status key)
Statuses == {"downloading", "finished", "error", "absent"}

(* ------------------------------------------------------------------ *)
(* State                                                                *)
(* ------------------------------------------------------------------ *)
VARIABLES
    url, dir_ok, download_video, ffmpeg,   \* the run's inputs and environment
    pc,                                    \* position in main()/download()
    exit_code,                             \* -1 until main() returns
    raised,                                \* exception leaving download()
    ffmpeg_checked,                        \* _check_ffmpeg() was called
    extract_calls, download_calls,         \* calls made to the library
    fetch_raise,                           \* what extract_info raised
    info, total, is_playlist, outtmpl, format,
    success_count, current,                \* the hook's closure cells
    n_events, n_finished, finished_items,  \* what the library delivered
    cb_count, cb, prev_current,            \* progress callback invocations
    ydl_raise,                             \* what ydl.download raised
    result                                 \* the pair download() returned

vars == <<url, dir_ok, download_video, ffmpeg, pc, exit_code, raised,
          ffmpeg_checked, extract_calls, download_calls, fetch_raise, info,
          total, is_playlist, outtmpl, format, success_count, current,
          n_events, n_finished, finished_items, cb_count, cb, prev_current,
          ydl_raise, result>>

inputs == <<url, dir_ok, download_video, ffmpeg>>
fetch_vars == <<extract_calls, fetch_raise, info>>
opts_vars == <<total, is_playlist, outtmpl, format>>
hook_vars == <<success_count, current, n_events, n_finished, finished_items,
               cb_count, cb, prev_current>>

NoCallback == [current |-> 0, total |-> 0, status |-> "", event |-> ""]

Init ==
    /\ url \in Urls
    /\ dir_ok \in BOOLEAN
    /\ download_video \in BOOLEAN
    /\ ffmpeg \in BOOLEAN
    /\ pc = "main"
    /\ exit_code = -1
    /\ raised = "none"
    /\ ffmpeg_checked = FALSE
    /\ extract_calls = 0
    /\ download_calls = 0
    /\ fetch_raise = "none"
    /\ info = NoneInfo
    /\ total = 0
    /\ is_playlist = FALSE
    /\ outtmpl = <<>>
    /\ format = ""
    /\ success_count = 0
    /\ current = 0
    /\ n_events = 0
    /\ n_finished = 0
    /\ finished_items = {}
    /\ cb_count = 0
    /\ cb = NoCallback
    /\ prev_current = 0
    /\ ydl_raise = "none"
    /\ result = <<0, 0>>

(* ------------------------------------------------------------------ *)
(* main.py                                                              *)
(* ------------------------------------------------------------------ *)
\* main(): no URL, or an invalid one, ends the run with 1
main_check_url ==
    /\ pc = "main"
    /\ IF url.empty \/ ~is_valid_youtube_url(url)
       THEN pc' = "done" /\ exit_code' = 1
       ELSE pc' = "ensure_dir" /\ UNCHANGED exit_code
    /\ UNCHANGED <<inputs, raised, ffmpeg_checked, download_calls, fetch_vars,
                   opts_vars, hook_vars, ydl_raise, result>>

\* main(): ensure_output_dir raises OSError when the folder cannot be made
main_ensure_dir ==
    /\ pc = "ensure_dir"
    /\ IF ~dir_ok
       THEN pc' = "done" /\ exit_code' = 1
       ELSE pc' = "download" /\ UNCHANGED exit_code
    /\ UNCHANGED <<inputs, raised, ffmpeg_checked, download_calls, fetch_vars,
                   opts_vars, hook_vars, ydl_raise, result>>

(* ------------------------------------------------------------------ *)
(* YouTubeDownloadService.download                                      *)
(* ------------------------------------------------------------------ *)
\* download(): the FFmpeg check of audio mode
download_check_ffmpeg ==
    /\ pc = "download"
    /\ IF NeedsFfmpeg(download_video)
       THEN /\ ffmpeg_checked' = TRUE
            /\ IF ~ffmpeg
               THEN pc' = "run_download_except" /\ raised' = "RuntimeError"
               ELSE pc' = "fetch" /\ UNCHANGED raised
       ELSE /\ pc' = "fetch"
            /\ UNCHANGED <<ffmpeg_checked, raised>>
    /\ UNCHANGED <<inputs, exit_code, download_calls, fetch_vars, opts_vars,
                   hook_vars, ydl_raise, result>>

\* get_playlist_info(): one metadata query; every exception becomes None
get_playlist_info ==
    /\ pc = "fetch"
    /\ \E o \in FetchOutcomes :
         /\ fetch_raise' = o.raise
         /\ info' = InfoReturned(o)
    /\ extract_calls' = extract_calls + 1
    /\ pc' = "fetched"
    /\ UNCHANGED <<inputs, exit_code, raised, ffmpeg_checked, download_calls,
                   opts_vars, hook_vars, ydl_raise, result>>

\* download(): "if not info: return 0, 0"
download_no_info ==
    /\ pc = "fetched"
    /\ NotInfo(info)
    /\ result' = <<0, 0>>
    /\ pc' = "run_download_return"
    /\ UNCHANGED <<inputs, exit_code, raised, ffmpeg_checked, download_calls,
                   fetch_vars, opts_vars, hook_vars, ydl_raise>>

\* download(): item count, options, hook cells, then ydl.download([url])
download_start ==
    /\ pc = "fetched"
    /\ ~NotInfo(info)
    /\ total' = DeriveTotal(info)
    /\ is_playlist' = IsPlaylist(total')
    /\ outtmpl' = build_opts_outtmpl(download_video, is_playlist')
    /\ format' = build_opts_format(download_video)
    /\ success_count' = 0
    /\ current' = 0
    /\ download_calls' = download_calls + 1
    /\ pc' = "ydl_download"
    /\ UNCHANGED <<inputs, exit_code, raised, ffmpeg_checked, fetch_vars,
                   n_events, n_finished, finished_items, cb_count, cb,
                   prev_current, ydl_raise, result>>

\* progress_hook(d): the library reports an event on one item
progress_hook ==
    /\ pc = "ydl_download"
    /\ n_events < MaxEvents
    /\ \E status \in Statuses, item \in 1..NItems(info) :
         /\ success_count' = HookSuccess(status, success_count)
         /\ current' = HookCurrent(status, success_count', current)
         /\ cb' = [current |-> current', total |-> total,
                   status |-> CallbackStatus(status), event |-> status]
         /\ n_finished' = IF status = "finished" THEN n_finished + 1 ELSE n_finished
         /\ finished_items' = IF status = "finished"
                              THEN finished_items \cup {item} ELSE finished_items
    /\ cb_count' = cb_count + 1
    /\ prev_current' = cb.current
    /\ n_events' = n_events + 1
    /\ UNCHANGED <<inputs, pc, exit_code, raised, ffmpeg_checked, download_calls,
                   fetch_vars, opts_vars, ydl_raise, result>>

\* download(): ydl.download returned; failures = total - success_count
ydl_download_returns ==
    /\ pc = "ydl_download"
    /\ result' = DownloadResult(total, success_count)
    /\ pc' = "run_download_return"
    /\ UNCHANGED <<inputs, exit_code, raised, ffmpeg_checked, download_calls,
                   fetch_vars, opts_vars, hook_vars, ydl_raise>>

\* download(): ydl.download raised; the exception is logged and dropped
ydl_download_raises ==
    /\ pc = "ydl_download"
    /\ \E e \in {"DownloadError", "Exception"} : ydl_raise' = e
    /\ result' = DownloadResult(total, success_count)
    /\ pc' = "run_download_return"
    /\ UNCHANGED <<inputs, exit_code, raised, ffmpeg_checked, download_calls,
                   fetch_vars, opts_vars, hook_vars>>

(* ------------------------------------------------------------------ *)
(* run_download                                                         *)
(* ------------------------------------------------------------------ *)
\* run_download(): return 0 if failure == 0 else 1
run_download_return ==
    /\ pc = "run_download_return"
    /\ exit_code' = ExitOf(result)
    /\ pc' = "done"
    /\ UNCHANGED <<inputs, raised, ffmpeg_checked, download_calls, fetch_vars,
                   opts_vars, hook_vars, ydl_raise, result>>

\* run_download(): except RuntimeError: return 1
run_download_except ==
    /\ pc = "run_download_except"
    /\ exit_code' = 1
    /\ pc' = "done"
    /\ UNCHANGED <<inputs, raised, ffmpeg_checked, download_calls, fetch_vars,
                   opts_vars, hook_vars, ydl_raise, result>>

Next ==
    \/ main_check_url
    \/ main_ensure_dir
    \/ download_check_ffmpeg
    \/ get_playlist_info
    \/ download_no_info
    \/ download_start
    \/ progress_hook
    \/ ydl_download_returns
    \/ ydl_download_raises
    \/ run_download_return
    \/ run_download_except

Spec == Init /\ [][Next]_vars

(* ------------------------------------------------------------------ *)
(* Properties                                                           *)
(* ------------------------------------------------------------------ *)
\* download(url) was entered and has gone past the FFmpeg check
PastFfmpegCheck == pc \in {"fetch", "fetched", "ydl_download", "run_download_return",
                           "run_download_except"}
                   \/ (pc = "done" /\ is_valid_youtube_url(url) /\ dir_ok)

\* the metadata query was made and its answer is a failure
FetchFailed == extract_calls > 0
               /\ (fetch_raise # "none" \/ info.type \in {"None", "empty_dict"})

\* the metadata query succeeded and download() went on to the download
Proceeded == download_calls > 0

\* download() has returned its pair
Returned == pc \in {"run_download_return", "done"} /\ extract_calls > 0

NonNull(l) == Cardinality({ k \in DOMAIN l : l[k] # "None" })

\* C1: the exit code is 1 whenever the URL is empty or invalid, the output
\* directory cannot be created, FFmpeg is missing in audio mode, the
\* metadata fetch fails or an item of the batch is not downloaded; it is 0
\* only when every item of the target was downloaded.
C1_ExitCode ==
    pc = "done" =>
      /\ (\/ url.empty
          \/ ~is_valid_youtube_url(url)
          \/ ~dir_ok
          \/ (~download_video /\ ~ffmpeg)
          \/ FetchFailed
          \/ (Proceeded /\ finished_items # 1..NItems(info)))
         => exit_code = 1
      /\ exit_code = 0 =>
           /\ Proceeded
           /\ ~FetchFailed
           /\ finished_items = 1..NItems(info)

\* C2: in audio mode without FFmpeg, download() raises RuntimeError before
\* any call to the extraction library; in video mode the FFmpeg check is
\* never performed and no RuntimeError stops the download.
C2_FfmpegBeforeLibrary ==
    /\ (PastFfmpegCheck /\ ~download_video /\ ~ffmpeg) =>
         /\ raised = "RuntimeError"
         /\ ffmpeg_checked
         /\ extract_calls = 0
         /\ download_calls = 0
         /\ pc \in {"run_download_except", "done"}
    /\ download_video =>
         /\ ~ffmpeg_checked
         /\ raised = "none"
         /\ (PastFfmpegCheck => pc # "run_download_except")
         /\ (PastFfmpegCheck /\ pc # "fetch" => extract_calls = 1)

C2_Witness ==
    /\ pc = "done" /\ ~download_video /\ ~ffmpeg
    /\ raised = "RuntimeError" /\ extract_calls = 0 /\ exit_code = 1

\* C3: after a successful metadata fetch, download() returns
\* (s, total - s) where s is the number of "finished" events delivered,
\* whether ydl.download returned normally or raised.
C3_ResultCounts ==
    (Returned /\ Proceeded) => result = <<n_finished, total - n_finished>>

C3_Witness ==
    /\ Returned /\ Proceeded /\ ydl_raise # "none"
    /\ total = 5 /\ n_finished = 3 /\ result = <<3, 2>>

\* C4: when the metadata fetch fails (an exception, or a null/empty
\* result), download() returns (0, 0), the download routine is never
\* invoked and no exception leaves download().
C4_FetchFailure ==
    (FetchFailed /\ pc # "fetched") =>
      /\ pc \in {"run_download_return", "done"}
      /\ result = <<0, 0>>
      /\ download_calls = 0
      /\ raised = "none"

C4_Witness ==
    /\ pc = "done" /\ fetch_raise = "Exception" /\ extract_calls = 1
    /\ result = <<0, 0>> /\ download_calls = 0

C4_WitnessEmpty ==
    /\ pc = "done" /\ fetch_raise = "none" /\ info = EmptyDict

\* C5: every playlist target gets the template with the playlist-title
\* subfolder of its mode, every single-video target the template that
\* writes directly into the output directory.
C5_TemplateByTarget ==
    Proceeded =>
      /\ (info.type = "playlist" /\ NItems(info) >= 1) =>
           outtmpl = <<"output_dir">> \o
                       (IF download_video THEN OUTPUT_TEMPLATE ELSE OUTPUT_TEMPLATE_WAV)
      /\ info.type = "video" =>
           outtmpl = <<"output_dir">> \o
                       (IF download_video THEN SINGLE_VIDEO_TEMPLATE
                                          ELSE SINGLE_VIDEO_TEMPLATE_WAV)

\* C6: a fetched result whose entry list is absent, null or empty is
\* treated as exactly 1 item: total 1 at the progress callback, the
\* single-video template, and a returned pair that sums to 1.
C6_NoEntriesIsOneItem ==
    (Proceeded /\ (info.entries \in {"absent", "null"} \/ info.list = <<>>)) =>
      /\ total = 1
      /\ ~is_playlist
      /\ outtmpl = <<"output_dir">> \o
                     (IF download_video THEN SINGLE_VIDEO_TEMPLATE
                                        ELSE SINGLE_VIDEO_TEMPLATE_WAV)
      /\ (cb_count > 0 => cb.total = 1)
      /\ (Returned => result[1] + result[2] = 1)

C6_Witness ==
    /\ Returned /\ Proceeded /\ info.entries = "absent"
    /\ cb_count > 0 /\ cb.total = 1 /\ result = <<1, 0>>

C6_WitnessEmptyList ==
    /\ Returned /\ Proceeded /\ info.entries = "list" /\ info.list = <<>>
    /\ result = <<0, 1>>

\* C7: with null entries mixed with real ones, the total used for progress
\* reporting and for the failure count is the number of non-null entries.
C7_NullEntriesFiltered ==
    (Proceeded /\ info.entries = "list"
       /\ NonNull(info.list) > 0 /\ NonNull(info.list) < Len(info.list)) =>
      /\ total = NonNull(info.list)
      /\ (cb_count > 0 => cb.total = NonNull(info.list))
      /\ (Returned => result[2] = NonNull(info.list) - n_finished)

C7_Witness ==
    /\ Returned /\ Proceeded
    /\ info.list = <<"None", "item", "None", "item">>
    /\ total = 2 /\ cb_count > 0 /\ cb.total = 2 /\ result = <<1, 1>>

\* C8: whenever download() proceeds past the metadata fetch, the derived
\* total is at least 1, also when every entry of a non-empty list is null.
C8_TotalAtLeastOne ==
    Proceeded => total >= 1

\* C9: at every invocation of the progress callback the current index is
\* (finished events so far) + 1 for a "downloading" event, the number of
\* finished events including this one for a "finished" event, and that of
\* the previous invocation otherwise; the total is the derived item count.
C9_CurrentIndex ==
    cb_count > 0 =>
      /\ cb.event = "downloading" => cb.current = n_finished + 1
      /\ cb.event = "finished" => cb.current = n_finished
      /\ cb.event \notin {"downloading", "finished"} => cb.current = prev_current
      /\ cb.total = total
      /\ current = cb.current

C9_Witness ==
    /\ cb_count >= 3 /\ n_finished = 1
    /\ cb.event = "downloading" /\ cb.current = 2 /\ prev_current = 1

C9_WitnessOther ==
    /\ cb_count >= 3 /\ cb.event = "error" /\ cb.current = 2 /\ prev_current = 2

\* C10: for every sequence of progress events, 0 <= success_count <= total,
\* failure_count >= 0, and the current index passed to the callback never
\* exceeds total.
C10_CountsInRange ==
    /\ (Returned /\ Proceeded) =>
         /\ 0 <= result[1]
         /\ result[1] <= total
         /\ result[2] >= 0
    /\ cb_count > 0 => cb.current <= total

TypeOK ==
    /\ pc \in {"main", "ensure_dir", "download", "fetch", "fetched",
               "ydl_download", "run_download_return", "run_download_except", "done"}
    /\ exit_code \in {-1, 0, 1}
    /\ success_count \in 0..MaxEvents
====
